---------------------------- MODULE Spec2Model ----------------------------
(***************************************************************************)
(* Load-Logic: delivery clustering / balancing (DeliveryRouter), route     *)
(* sequencing (optimize_route, nearest neighbour) and the multi-vehicle    *)
(* schedule solve (plan_multi_routes).                                     *)
(*                                                                         *)
(* Geometry.  Stops and the depot are drawn on one meridian (lon = 0, lat  *)
(* an integer number of degrees).  There _haversine_km reduces to          *)
(* R * |lat2 - lat1| (a = sin^2(dlat/2), c = 2*asin(sqrt(a)) = |dlat|), so *)
(* every comparison of distances the code makes is a comparison of         *)
(* |lat2 - lat1|.  Centroids are means, hence rationals; a coordinate is   *)
(* kept as <<numerator, denominator>> and distances are compared by cross  *)
(* multiplication, which is exact.  The code compares 64-bit floats: for   *)
(* latitudes 0 and 1 its comparisons agree with the exact ones; on wider   *)
(* ranges rounding can order two distances that are equal as reals (the    *)
(* centroid 1.5 of latitudes 1 and 2), which then breaks a tie the exact   *)
(* model resolves by position.  No property below depends on how such a    *)
(* tie falls.                                                              *)
(***************************************************************************)
EXTENDS Integers, Sequences, FiniteSets, TLC

VARIABLES
    \* ---- DeliveryRouter.__init__ / cluster_stops / _balance_clusters ----
    depot,                \* self.depot (latitude, degrees)
    num_trucks,           \* self.num_trucks
    max_stops_per_truck,  \* self.max_stops_per_truck
    truck_capacity,       \* self.truck_capacity
    stops,                \* the stop list handed to cluster_stops
    clusters,             \* cluster id -> list of stops (indices into stops)
    iteration,            \* _balance_clusters: iteration
    moved,                \* number of stops re-inserted so far (history)
    last_move,            \* the last re-insertion (history)
    pc,                   \* position inside cluster_stops
    ret,                  \* how cluster_stops left: break / bound / ValueError
    \* ---- DeliveryRouter.optimize_route ----
    use_google_maps,      \* the argument use_google_maps
    _use_google,          \* self._use_google (then self._gmaps is a client)
    gmaps_reply,          \* what self._gmaps.directions did, "not_called" if
                          \* it was not called
    route,                \* the list optimize_route returned (indices)
    rpc,                  \* position inside optimize_route
    \* ---- plan_multi_routes ----
    plan_stops,           \* the argument stops
    durations_seconds,    \* the argument durations_seconds (list of rows)
    departure_time,       \* the argument departure_time, <<hour, minute>>
    max_drivers,          \* the argument max_drivers
    max_stops_per_driver, \* the argument max_stops_per_driver
    travel,               \* the local travel (minutes), <<>> before line 86
    tw,                   \* the local tw, <<>> before line 124
    num_vehicles,         \* the local num_vehicles, 0 before line 149
    model_built,          \* a RoutingModel was constructed (line 152)
    solve_attempts,       \* calls of routing.SolveWithParameters so far
    sol,                  \* the assignment found, NoSolution if none
    strategies,           \* first_solution_strategy of each solve call so far
    cumul_range,          \* the range set on each node's time CumulVar
    result,               \* the dict plan_multi_routes returned
    ppc,                  \* position inside plan_multi_routes
    \* ---- plan_route (planner.py) ----
    n_deliv,              \* len(stops) of the request
    deliveries,           \* the argument stops (address, window_start)
    depart_time,          \* the argument departure_time, <<hour, minute>>
    solve_tw,             \* the local tw of the latest _solve_once call
    lunch_minutes,        \* the argument lunch_minutes
    lunch_skippable,      \* the argument lunch_skippable
    use_lunch_calls,      \* use_lunch of each _solve_once call made so far
    r_first,              \* the local r: the dict of the first _solve_once
    r_second,             \* the local r2: the dict of the second _solve_once
    route_result,         \* the dict plan_route returned
    lpc,                  \* position inside plan_route
    \* ---- DeliveryRouter.create_full_routing_plan ----
    plan,                 \* the dict plan: the entries "Truck_<n>" written so
                          \* far, in the order written
    summary,              \* plan["summary"], <<>> before it is written
    truck,                \* clusters.items() entries consumed by the loop
    fpc,                  \* position inside create_full_routing_plan
    \* ---- compute_matrix_seconds / _google_matrix_chunk (maps.py) ----
    n_nodes_m,            \* len(nodes) of the request
    has_google_key,       \* GOOGLE_MAPS_API_KEY is set
    matrix,               \* the local matrix (0-based in the code, 1-based
                          \* here), <<>> before it is built
    bad_pairs_count,      \* len(bad_pairs)
    calls,                \* the local calls
    chunk_at,             \* <<i0, j0>> of the chunk being requested
    statuses,             \* status codes received for this chunk so far
    posts,                \* client.post calls made for this chunk so far
    chunk_outcome,        \* how the latest _google_matrix_chunk call ended
    chunks_returned,      \* _google_matrix_chunk calls that returned
    matrix_result,        \* what compute_matrix_seconds returned
    mpc                   \* position inside compute_matrix_seconds

cvars == <<depot, num_trucks, max_stops_per_truck, truck_capacity, stops,
           clusters, iteration, moved, last_move, pc, ret>>

rvars == <<use_google_maps, _use_google, gmaps_reply, route, rpc>>

\* the solve ladder's own state
svars == <<strategies, cumul_range>>

pvars == <<plan_stops, durations_seconds, departure_time, max_drivers,
           max_stops_per_driver, travel, tw, num_vehicles, model_built,
           solve_attempts, sol, result, ppc, svars>>

lvars == <<n_deliv, deliveries, depart_time, solve_tw, lunch_minutes,
          lunch_skippable, use_lunch_calls, r_first,
           r_second, route_result, lpc>>

\* the state of the entry points modelled after the first three
fvars == <<plan, summary, truck, fpc>>

mvars == <<n_nodes_m, has_google_key, matrix, bad_pairs_count, calls,
           chunk_at, statuses, posts, chunk_outcome, chunks_returned,
           matrix_result, mpc>>

xvars == <<lvars, fvars, mvars>>

vars == <<cvars, rvars, pvars, xvars>>

\* a dict that does not exist (yet): no keys
NoEta == [hour |-> 0, minute |-> 0, ampm |-> ""]

NoDict == [feasible |-> FALSE, keys |-> {}, schedule |-> <<>>,
           ordered_deliveries |-> <<>>, return_eta |-> NoEta, lunch |-> ""]

\* create_full_routing_plan is not running
IdleFullPlan ==
    /\ plan = <<>>
    /\ summary = <<>>
    /\ truck = 0
    /\ fpc = "idle"

NoMatrixResult == [returned |-> FALSE, matrix |-> <<>>, source |-> ""]

\* compute_matrix_seconds is not running
IdleMatrix ==
    /\ n_nodes_m = 0
    /\ has_google_key = FALSE
    /\ matrix = <<>>
    /\ bad_pairs_count = 0
    /\ calls = 0
    /\ chunk_at = <<0, 0>>
    /\ statuses = <<>>
    /\ posts = 0
    /\ chunk_outcome = "none"
    /\ chunks_returned = 0
    /\ matrix_result = NoMatrixResult
    /\ mpc = "idle"

\* plan_route is not running
IdlePlanRoute ==
    /\ n_deliv = 0
    /\ deliveries = <<>>
    /\ depart_time = <<0, 0>>
    /\ solve_tw = <<>>
    /\ lunch_minutes = 0
    /\ lunch_skippable = FALSE
    /\ use_lunch_calls = <<>>
    /\ r_first = NoDict
    /\ r_second = NoDict
    /\ route_result = NoDict
    /\ lpc = "idle"

-----------------------------------------------------------------------------
\* Bounds of the model.
MaxStops    == 2      \* longest stop list handed to cluster_stops
MaxLat      == 1      \* latitudes 0..MaxLat
MaxTrucks   == 2      \* num_trucks in 1..MaxTrucks
MaxStopsPerTruck == 1 \* max_stops_per_truck in 1..MaxStopsPerTruck

\* the demands of a stop and the capacities of a truck that are tried; a
\* negative capacity makes an empty cluster count as overloaded
GallonValues   == {0, 1}
CapacityValues == {-1, 0, 1}

MaxRouteStops == 3    \* longest stop list handed to optimize_route, besides
                      \* the two lists around the waypoint limit
MaxPlanStops  == 2    \* longest stop list handed to plan_multi_routes
MaxMatrixDim  == 3    \* most rows, and most cells in a row, of the matrix
MaxDrivers    == 2    \* max_drivers in 0..MaxDrivers
MaxStopsPerDriver == 1 \* max_stops_per_driver in 0..MaxStopsPerDriver

\* _balance_clusters: max_iterations = 100
max_iterations == 100

-----------------------------------------------------------------------------
\* Helpers on sequences and rationals.

Abs(x) == IF x < 0 THEN -x ELSE x

Max(a, b) == IF a > b THEN a ELSE b

Range(s) == {s[i] : i \in 1..Len(s)}

\* (a pop that reads the element and leaves it in the list)
RemoveAtKeeps(s, i) == s

\* list.pop(i) leaves the list without its i-th element
RemoveAt(s, i) == [j \in 1..(Len(s) - 1) |-> IF j < i THEN s[j] ELSE s[j + 1]]

\* a rational coordinate / distance <<numerator, denominator>>, denominator > 0
Rat(n) == <<n, 1>>
RatLt(r, s) == r[1] * s[2] < s[1] * r[2]
RatLe(r, s) == r[1] * s[2] <= s[1] * r[2]

\* _haversine_km on one meridian, in units of R * pi / 180 km
_haversine_km(p, q) == <<Abs(p[1] * q[2] - q[1] * p[2]), p[2] * q[2]>>

StopLat(i) == Rat(stops[i].lat)

\* s.get("gallons", 0)
Gallons(i) == stops[i].gallons

\* DeliveryRouter._get_cluster_gallons: sum of the gallons of a list of stops
RECURSIVE _get_cluster_gallons(_)
_get_cluster_gallons(v) ==
    IF v = <<>> THEN 0 ELSE Gallons(Head(v)) + _get_cluster_gallons(Tail(v))

RECURSIVE SumLat(_)
SumLat(v) == IF v = <<>> THEN 0 ELSE stops[Head(v)].lat + SumLat(Tail(v))

\* DeliveryRouter._centroid: the depot for an empty list, else the mean
_centroid(v) == IF v = <<>> THEN Rat(depot) ELSE <<SumLat(v), Len(v)>>

\* max(range(n), key) / min(range(n), key): the first best index, where
\* better(i, j) says that i's key beats j's key strictly
\* (FirstBestIn: the same over the keys of a dict, in insertion order 0, 1, ..)
FirstBestIn(S, better(_, _)) ==
    CHOOSE i \in S :
        \A j \in S : /\ (j < i => better(i, j))
                     /\ (j > i => ~better(j, i))

FirstBest(n, better(_, _)) == FirstBestIn(1..n, better)

\* list.sort(key = distance from the depot): stable, ascending
DepotKm(i) == _haversine_km(Rat(depot), StopLat(i))

InsertStable(t, x) ==
    LET p == Cardinality({j \in 1..Len(t) : RatLe(DepotKm(t[j]), DepotKm(x))})
    IN  SubSeq(t, 1, p) \o <<x>> \o SubSeq(t, p + 1, Len(t))

RECURSIVE SortByDepot(_)
SortByDepot(s) ==
    IF s = <<>> THEN <<>>
    ELSE InsertStable(SortByDepot(SubSeq(s, 1, Len(s) - 1)), s[Len(s)])

-----------------------------------------------------------------------------
\* DeliveryRouter.cluster_stops

StopRecords == [lat : 0..MaxLat, gallons : GallonValues]

StopLists == UNION {[1..n -> StopRecords] : n \in 0..MaxStops}

NoMove == [from |-> -1, to |-> -1, stop |-> 0, soft |-> FALSE]

InitCluster ==
    /\ depot = 0
    /\ num_trucks \in 1..MaxTrucks
    /\ max_stops_per_truck \in 1..MaxStopsPerTruck
    /\ truck_capacity \in CapacityValues
    /\ stops \in StopLists
    /\ clusters = <<>>
    /\ iteration = 0
    /\ moved = 0
    /\ last_move = NoMove
    /\ pc = "start"
    /\ ret = "none"
    /\ use_google_maps = FALSE
    /\ _use_google = FALSE
    /\ gmaps_reply = [kind |-> "not_called", order |-> <<>>]
    /\ route = <<>>
    /\ rpc = "idle"
    /\ plan_stops = <<>>
    /\ durations_seconds = <<>>
    /\ departure_time = <<0, 0>>
    /\ max_drivers = 0
    /\ max_stops_per_driver = 0
    /\ travel = <<>>
    /\ tw = <<>>
    /\ num_vehicles = 0
    /\ model_built = FALSE
    /\ solve_attempts = 0
    /\ strategies = <<>>
    /\ cumul_range = <<>>
    /\ sol = [found |-> FALSE, paths |-> <<>>, times |-> <<>>]
    /\ result = [returned |-> FALSE, feasible |-> FALSE, error |-> "",
                 drivers_used |-> 0, drivers_max |-> 0, routes |-> <<>>,
                 keys |-> {}]
    /\ ppc = "idle"
    /\ IdlePlanRoute
    /\ IdleFullPlan
    /\ IdleMatrix

\* k = min(self.num_trucks, n)
NumClusters == IF num_trucks < Len(stops) THEN num_trucks ELSE Len(stops)

\* the stops labelled c, in input order
RECURSIVE Labelled(_, _, _)
Labelled(labels, c, i) ==
    IF i > Len(stops) THEN <<>>
    ELSE (IF labels[i] = c THEN <<i>> ELSE <<>>) \o Labelled(labels, c, i + 1)

\* if not stops: return {}
ClusterStopsEmpty ==
    /\ pc = "start"
    /\ stops = <<>>
    /\ clusters' = <<>>
    /\ pc' = "done"
    /\ ret' = "empty"
    /\ UNCHANGED <<depot, num_trucks, max_stops_per_truck, truck_capacity,
                   stops, iteration, moved, last_move, rvars, pvars, xvars>>

\* KMeans.fit_predict gives every stop a label in 0..k-1 (any labelling:
\* the library's choice is not fixed by this program); the stops of each
\* label are collected in input order and sorted by distance from the depot
ClusterStops ==
    /\ pc = "start"
    /\ stops # <<>>
    /\ \E labels \in [1..Len(stops) -> 0..(NumClusters - 1)] :
          clusters' = [c \in 0..(NumClusters - 1) |->
                          SortByDepot(Labelled(labels, c, 1))]
    /\ iteration' = 0
    /\ pc' = "balance"
    /\ UNCHANGED <<depot, num_trucks, max_stops_per_truck, truck_capacity,
                   stops, moved, last_move, ret, rvars,
                   pvars, xvars>>

-----------------------------------------------------------------------------
\* DeliveryRouter._balance_clusters

\* (an overload test that forgets the capacity limit)
IsOverloadedStopsOnly(v) == Len(v) > max_stops_per_truck

\* len(v) > self.max_stops_per_truck or total_gallons > self.truck_capacity
IsOverloaded(v) ==
    \/ Len(v) > max_stops_per_truck
    \/ _get_cluster_gallons(v) > truck_capacity

\* the keys of the list "overloaded"
Overloaded == {k \in DOMAIN clusters : IsOverloaded(clusters[k])}

\* truck_id, stops = overloaded[0]: the first overloaded cluster in key order
truck_id == CHOOSE k \in Overloaded : \A j \in Overloaded : k <= j

\* furthest_idx: most gallons when over capacity, else furthest from centroid
furthest_idx(v) ==
    IF _get_cluster_gallons(v) > truck_capacity
    THEN FirstBest(Len(v), LAMBDA i, j : Gallons(v[i]) > Gallons(v[j]))
    ELSE FirstBest(Len(v), LAMBDA i, j :
             RatLt(_haversine_km(_centroid(v), StopLat(v[j])),
                   _haversine_km(_centroid(v), StopLat(v[i]))))

\* (a test for room that counts the stops and forgets the gallons)
UnderloadedStopsOnly(tid, s) ==
    {k \in DOMAIN clusters \ {tid} :
        Len(clusters[k]) < max_stops_per_truck}

\* the keys of the list "underloaded" for the stop s taken from cluster tid
Underloaded(tid, s) ==
    {k \in DOMAIN clusters \ {tid} :
        /\ Len(clusters[k]) < max_stops_per_truck
        /\ _get_cluster_gallons(clusters[k]) + Gallons(s) <= truck_capacity}

\* (a target choice that hands the stop back to the cluster it came from)
NearestUnderloadedSelf(tid, s) == tid

\* min(underloaded, key = distance from the cluster's centroid to the stop)
NearestUnderloaded(tid, s) ==
    FirstBestIn(Underloaded(tid, s), LAMBDA a, b :
        RatLt(_haversine_km(_centroid(clusters[a]), StopLat(s)),
              _haversine_km(_centroid(clusters[b]), StopLat(s))))

\* min(other keys, key = (gallons, len)): tuples compare lexicographically
LeastLoaded(tid) ==
    FirstBestIn(DOMAIN clusters \ {tid}, LAMBDA a, b :
        LET ga == _get_cluster_gallons(clusters[a])
            gb == _get_cluster_gallons(clusters[b])
        IN  \/ ga < gb
            \/ ga = gb /\ Len(clusters[a]) < Len(clusters[b]))

\* (a loop that forgets to count its iterations)
NextIterationStuck == iteration

\* line 97: iteration += 1
NextIteration == iteration + 1

\* while iteration < max_iterations: ...; if not overloaded: break
BalanceBreak ==
    /\ pc = "balance"
    /\ iteration < max_iterations
    /\ Overloaded = {}
    /\ iteration' = NextIteration
    /\ pc' = "done"
    /\ ret' = "break"
    /\ UNCHANGED <<depot, num_trucks, max_stops_per_truck, truck_capacity,
                   stops, clusters, moved, last_move, rvars, pvars, xvars>>

\* one iteration that moves a stop: pop it from the first overloaded cluster
\* and append it to the target
\* (\E x \in {e} names the value of e, as the code's local variables do)
BalanceMove ==
    /\ pc = "balance"
    /\ iteration < max_iterations
    /\ Overloaded # {}
    /\ \E tid \in {truck_id} :
       \E v \in {clusters[tid]} :
          /\ v # <<>>
          /\ DOMAIN clusters \ {tid} # {}
          /\ \E idx \in {furthest_idx(v)} :
             \E s \in {v[idx]} :
             \E und \in {Underloaded(tid, s)} :
             \E target \in {IF und # {} THEN NearestUnderloaded(tid, s)
                            ELSE LeastLoaded(tid)} :
                /\ clusters' = [clusters EXCEPT ![tid] = RemoveAt(v, idx),
                                                ![target] = Append(@, s)]
                /\ last_move' = [from |-> tid, to |-> target, stop |-> s,
                                 soft |-> (und = {})]
    /\ iteration' = NextIteration
    /\ moved' = moved + 1
    /\ UNCHANGED <<depot, num_trucks, max_stops_per_truck, truck_capacity,
                   stops, pc, ret, rvars, pvars, xvars>>

\* one iteration that raises ValueError: max() over an empty overloaded
\* cluster (lines 118, 124), or min() over no other cluster (line 152) after
\* the stop was popped
BalanceRaise ==
    /\ pc = "balance"
    /\ iteration < max_iterations
    /\ Overloaded # {}
    /\ \E tid \in {truck_id} :
       \E v \in {clusters[tid]} :
          /\ \/ v = <<>>
             \/ DOMAIN clusters \ {tid} = {}
          /\ clusters' = IF v = <<>> THEN clusters
                         ELSE [clusters EXCEPT ![tid] =
                                  RemoveAt(v, furthest_idx(v))]
    /\ iteration' = NextIteration
    /\ pc' = "raised"
    /\ ret' = "ValueError"
    /\ UNCHANGED <<depot, num_trucks, max_stops_per_truck, truck_capacity,
                   stops, moved, last_move, rvars, pvars, xvars>>

\* the while condition fails: return clusters
BalanceExhausted ==
    /\ pc = "balance"
    /\ iteration >= max_iterations
    /\ pc' = "done"
    /\ ret' = "bound"
    /\ UNCHANGED <<depot, num_trucks, max_stops_per_truck, truck_capacity,
                   stops, clusters, iteration, moved, last_move, rvars, pvars, xvars>>

NextCluster ==
    \/ ClusterStopsEmpty
    \/ ClusterStops
    \/ BalanceBreak
    \/ BalanceMove
    \/ BalanceRaise
    \/ BalanceExhausted

SpecCluster == InitCluster /\ [][NextCluster]_vars

-----------------------------------------------------------------------------
\* Properties of cluster_stops / _balance_clusters

\* how many times stop i occurs in the list v
RECURSIVE Occurrences(_, _)
Occurrences(v, i) ==
    IF v = <<>> THEN 0
    ELSE (IF Head(v) = i THEN 1 ELSE 0) + Occurrences(Tail(v), i)

\* how many times stop i occurs in the clusters 0..k of the mapping
RECURSIVE OccurrencesUpTo(_, _)
OccurrencesUpTo(k, i) ==
    IF k < 0 THEN 0
    ELSE Occurrences(clusters[k], i) + OccurrencesUpTo(k - 1, i)

InMapping(i) == OccurrencesUpTo(NumClusters - 1, i)

\* C1: the mapping cluster_stops returns, and the mapping at the head of
\* every rebalancing iteration, holds each input stop exactly once and
\* nothing else: no stop is duplicated or lost by rebalancing moves or by
\* soft-overflow insertions.
C1_EachStopInExactlyOneCluster ==
    (pc = "balance" \/ (pc = "done" /\ ret # "empty")) =>
        /\ DOMAIN clusters = 0..(NumClusters - 1)
        /\ \A k \in DOMAIN clusters : Range(clusters[k]) \subseteq 1..Len(stops)
        /\ \A i \in 1..Len(stops) : InMapping(i) = 1

\* a mapping returned after rebalancing moves, the last one a soft overflow
C1_Witness ==
    /\ pc = "done"
    /\ moved >= 2
    /\ last_move.soft
    /\ Len(stops) = MaxStops

\* C2: when _balance_clusters leaves its loop through the break, every
\* cluster has at most max_stops_per_truck stops and at most truck_capacity
\* gallons.
C2_BalancedWithinLimits ==
    (pc = "done" /\ ret = "break") =>
        \A k \in DOMAIN clusters :
            /\ Len(clusters[k]) <= max_stops_per_truck
            /\ _get_cluster_gallons(clusters[k]) <= truck_capacity

\* the break is taken after a stop with demand was moved
C2_Witness ==
    /\ pc = "done"
    /\ ret = "break"
    /\ moved >= 1
    /\ \E k \in DOMAIN clusters : _get_cluster_gallons(clusters[k]) > 0

\* C3 (as claimed): cluster_stops never raises.
C3_NeverRaises == pc # "raised"

\* the number of stops that sit in different clusters in c1 and c2
ClusterOf(c, i) == CHOOSE k \in DOMAIN c : i \in Range(c[k])

MovedBetween(c1, c2) ==
    Cardinality({i \in 1..Len(stops) : ClusterOf(c1, i) # ClusterOf(c2, i)})

\* C4: the rebalancing loop is bounded: the iteration counter and the number
\* of moves never pass 100, every step of the loop either leaves the loop or
\* uses up one iteration and moves exactly one stop, and when the bound is
\* exhausted the mapping is returned as it stands.
C4_LoopBounded ==
    /\ [](iteration <= max_iterations /\ moved <= iteration)
    /\ [][(pc = "balance" /\ pc' = "balance") =>
            /\ iteration' = iteration + 1
            /\ moved' = moved + 1
            /\ MovedBetween(clusters, clusters') = 1]_vars
    /\ [][(pc = "balance" /\ iteration >= max_iterations) =>
            /\ pc' = "done"
            /\ ret' = "bound"
            /\ clusters' = clusters]_vars

\* the bound was exhausted and a cluster is still over a limit
C4_Witness ==
    /\ pc = "done"
    /\ ret = "bound"
    /\ iteration = max_iterations
    /\ moved = max_iterations
    /\ \E k \in DOMAIN clusters :
           \/ Len(clusters[k]) > max_stops_per_truck
           \/ _get_cluster_gallons(clusters[k]) > truck_capacity

\* C22 (as claimed): in every rebalancing iteration that moves a stop, the
\* cluster that gives up the stop is a most-overloaded one: no overloaded
\* cluster exceeds the stop limit and the gallon limit by at least as much
\* as it does, and one of the two by more.
C22_MostOverloadedChosen ==
    [][(pc = "balance" /\ moved' = moved + 1) =>
        LET StopExcess(v) == Max(0, Len(v) - max_stops_per_truck)
            GallonExcess(v) == Max(0, _get_cluster_gallons(v) - truck_capacity)
            chosen == clusters[last_move'.from]
        IN  \A k \in Overloaded :
                ~ /\ StopExcess(clusters[k]) >= StopExcess(chosen)
                  /\ GallonExcess(clusters[k]) >= GallonExcess(chosen)
                  /\ \/ StopExcess(clusters[k]) > StopExcess(chosen)
                     \/ GallonExcess(clusters[k]) > GallonExcess(chosen)]_vars

\* C27: in every rebalancing iteration that moves a stop, (a) the stop does
\* not go back to the cluster it was taken from, (b) a target that had a free
\* slot and enough spare gallons for the stop is within both limits after
\* the insertion, and (c) a cluster other than the relieved one that was
\* within the limits is over them afterwards only if it is the target of a
\* soft-overflow insertion (no cluster could legally accept the stop).
C27_LegalInsertKeepsLimits ==
    [][(pc = "balance" /\ moved' = moved + 1) =>
        LET m == last_move'
            legal == /\ Len(clusters[m.to]) < max_stops_per_truck
                     /\ _get_cluster_gallons(clusters[m.to]) + Gallons(m.stop)
                            <= truck_capacity
        IN  /\ m.to # m.from
            /\ clusters'[m.to] = Append(clusters[m.to], m.stop)
            /\ legal =>
                  /\ Len(clusters'[m.to]) <= max_stops_per_truck
                  /\ _get_cluster_gallons(clusters'[m.to]) <= truck_capacity
            /\ \A k \in DOMAIN clusters \ {m.from} :
                  (~IsOverloaded(clusters[k]) /\ IsOverloaded(clusters'[k]))
                      => (k = m.to /\ m.soft /\ ~legal)]_vars

\* a stop went to a cluster that could legally accept it and filled its last
\* free slot, and the loop has ended on a balanced mapping
C27_Witness ==
    /\ pc = "done"
    /\ ret = "break"
    /\ moved >= 1
    /\ ~last_move.soft
    /\ Len(clusters[last_move.to]) = max_stops_per_truck
    /\ last_move.stop \in Range(clusters[last_move.to])

\* the stops carry no demand, the capacity is not negative, and the stops
\* fit into the clusters: N <= 50 and N <= K * max_stops_per_truck
ZeroDemandFits ==
    /\ \A i \in 1..Len(stops) : Gallons(i) = 0
    /\ truck_capacity >= 0
    /\ Len(stops) <= 50
    /\ Len(stops) <= NumClusters * max_stops_per_truck

\* C28: if all demands are zero, truck_capacity >= 0, N <= 50 and
\* N <= K * max_stops_per_truck, then whatever partition the labelling
\* gives, _balance_clusters does not raise, moves at most N stops, leaves
\* its loop by the break before the iteration bound, and every cluster ends
\* with at most max_stops_per_truck stops.
C28_ZeroDemandBalances ==
    ZeroDemandFits =>
        /\ pc # "raised"
        /\ moved <= Len(stops)
        /\ iteration <= Len(stops) + 1
        /\ (pc = "done" /\ stops # <<>>) =>
              /\ ret = "break"
              /\ iteration < max_iterations
              /\ \A k \in DOMAIN clusters :
                     Len(clusters[k]) <= max_stops_per_truck

\* a partition with a cluster over the stop limit was balanced by moving
\* stops without demand
C28_Witness ==
    /\ ZeroDemandFits
    /\ pc = "done"
    /\ ret = "break"
    /\ moved >= 1
    /\ Len(stops) = NumClusters * max_stops_per_truck

-----------------------------------------------------------------------------
\* DeliveryRouter.optimize_route

\* optimize_route: len(stops) <= 10 (and _optimize_with_google_maps: > 10)
GoogleWaypointLimit == 10

\* a list around the waypoint limit: stop i lies at latitude i mod (MaxLat+1)
LongStopList(n) == [i \in 1..n |-> [lat |-> i % (MaxLat + 1), gallons |-> 0]]

RouteStopLists ==
    UNION {[1..n -> [lat : 0..MaxLat, gallons : {0}]] : n \in 0..MaxRouteStops}
    \cup {LongStopList(GoogleWaypointLimit), LongStopList(GoogleWaypointLimit + 1)}

\* all lists over S of length at most n
SeqUpTo(S, n) == UNION {[1..m -> S] : m \in 0..n}

\* What self._gmaps.directions(...) can do for n waypoints: raise, return no
\* route, return a route without "waypoint_order", or return a route whose
\* "waypoint_order" is some list of integers.  The service is remote: the
\* list is whatever it sends (index n is out of range, -1 is Python's last
\* element).  For the long lists only a few orders are tried.
Identity(n) == [i \in 1..n |-> i - 1]

Reversed(n) == [i \in 1..n |-> n - i]

Reply(kind, order) == [kind |-> kind, order |-> order]

NotCalled == Reply("not_called", <<>>)

GmapsReplies(n) ==
    {Reply(k, <<>>) : k \in {"raise", "no_route", "no_order"}}
    \cup {Reply("order", o) :
            o \in (IF n <= MaxRouteStops THEN SeqUpTo(-1..n, n)
                   ELSE {Identity(n), Reversed(n), <<0, 0>>})}

InitRoute ==
    /\ depot = 0
    /\ num_trucks = 1
    /\ max_stops_per_truck = 1
    /\ truck_capacity = 0
    /\ stops \in RouteStopLists
    /\ clusters = <<>>
    /\ iteration = 0
    /\ moved = 0
    /\ last_move = NoMove
    /\ pc = "idle"
    /\ ret = "none"
    /\ use_google_maps \in BOOLEAN
    /\ _use_google \in BOOLEAN
    /\ gmaps_reply = NotCalled
    /\ route = <<>>
    /\ rpc = "start"
    /\ plan_stops = <<>>
    /\ durations_seconds = <<>>
    /\ departure_time = <<0, 0>>
    /\ max_drivers = 0
    /\ max_stops_per_driver = 0
    /\ travel = <<>>
    /\ tw = <<>>
    /\ num_vehicles = 0
    /\ model_built = FALSE
    /\ solve_attempts = 0
    /\ strategies = <<>>
    /\ cumul_range = <<>>
    /\ sol = [found |-> FALSE, paths |-> <<>>, times |-> <<>>]
    /\ result = [returned |-> FALSE, feasible |-> FALSE, error |-> "",
                 drivers_used |-> 0, drivers_max |-> 0, routes |-> <<>>,
                 keys |-> {}]
    /\ ppc = "idle"
    /\ IdlePlanRoute
    /\ IdleFullPlan
    /\ IdleMatrix

\* (a minimum that keeps the last of equally near stops)
RECURSIVE NearestNeighborLastTie(_, _)
NearestNeighborLastTie(remaining, curr) ==
    IF remaining = <<>> THEN <<>>
    ELSE LET i == FirstBest(Len(remaining), LAMBDA a, b :
                      RatLe(_haversine_km(curr, StopLat(remaining[a])),
                            _haversine_km(curr, StopLat(remaining[b]))))
         IN  <<remaining[i]>>
             \o NearestNeighborLastTie(RemoveAt(remaining, i),
                                       StopLat(remaining[i]))

\* the while loop of _nearest_neighbor_route: i = min(range(len(remaining)),
\* key = distance from curr); s = remaining.pop(i); route.append(s);
\* curr = s
RECURSIVE NearestNeighborLoop(_, _)
NearestNeighborLoop(remaining, curr) ==
    IF remaining = <<>> THEN <<>>
    ELSE LET i == FirstBest(Len(remaining), LAMBDA a, b :
                      RatLt(_haversine_km(curr, StopLat(remaining[a])),
                            _haversine_km(curr, StopLat(remaining[b]))))
         IN  <<remaining[i]>>
             \o NearestNeighborLoop(RemoveAt(remaining, i),
                                    StopLat(remaining[i]))

\* DeliveryRouter._nearest_neighbor_route(stops): remaining = list(stops),
\* curr = self.depot
_nearest_neighbor_route == NearestNeighborLoop([i \in 1..Len(stops) |-> i],
                                               Rat(depot))

\* stops[i] for a Python index i: IndexError unless -n <= i < n
IndexOk(i) == -Len(stops) <= i /\ i < Len(stops)

PyIndex(i) == IF i >= 0 THEN i + 1 ELSE Len(stops) + i + 1

\* (a sequencer wrapper that hands back the input order when the call fails)
OptimizeWithGoogleMapsKeepsInput(reply) ==
    IF reply.kind # "order"
    THEN [ok |-> TRUE, stops |-> [i \in 1..Len(stops) |-> i]]
    ELSE IF \E j \in 1..Len(reply.order) : ~IndexOk(reply.order[j])
    THEN [ok |-> TRUE, stops |-> [i \in 1..Len(stops) |-> i]]
    ELSE [ok |-> TRUE,
          stops |-> [j \in 1..Len(reply.order) |-> PyIndex(reply.order[j])]]

\* DeliveryRouter._optimize_with_google_maps, given what directions did:
\* None (ok = FALSE) when the call raised, when there is no route or no
\* "waypoint_order", or when an index raised IndexError inside the try;
\* else [stops[i] for i in order]
_optimize_with_google_maps(reply) ==
    IF reply.kind # "order"
    THEN [ok |-> FALSE, stops |-> <<>>]
    ELSE IF \E j \in 1..Len(reply.order) : ~IndexOk(reply.order[j])
    THEN [ok |-> FALSE, stops |-> <<>>]
    ELSE [ok |-> TRUE,
          stops |-> [j \in 1..Len(reply.order) |-> PyIndex(reply.order[j])]]

\* use_google and self._gmaps (line 178-179), and line 188: the client is
\* called only for at most 10 stops
Consults ==
    /\ use_google_maps
    /\ _use_google
    /\ Len(stops) <= GoogleWaypointLimit

\* if len(stops) <= 1: return list(stops)
OptimizeRouteTrivial ==
    /\ rpc = "start"
    /\ Len(stops) <= 1
    /\ route' = [i \in 1..Len(stops) |-> i]
    /\ rpc' = "done"
    /\ UNCHANGED <<cvars, pvars, xvars, use_google_maps, _use_google, gmaps_reply>>

\* the sequencer is consulted; its order is returned, or the nearest-neighbour
\* route when _optimize_with_google_maps returned None
OptimizeRouteGoogle ==
    /\ rpc = "start"
    /\ Len(stops) > 1
    /\ Consults
    /\ \E reply \in GmapsReplies(Len(stops)) :
       \E out \in {_optimize_with_google_maps(reply)} :
          /\ gmaps_reply' = reply
          /\ route' = IF out.ok THEN out.stops ELSE _nearest_neighbor_route
    /\ rpc' = "done"
    /\ UNCHANGED <<cvars, pvars, xvars, use_google_maps, _use_google>>

\* the sequencer is not consulted: return self._nearest_neighbor_route(stops)
OptimizeRouteNearest ==
    /\ rpc = "start"
    /\ Len(stops) > 1
    /\ ~Consults
    /\ route' = _nearest_neighbor_route
    /\ rpc' = "done"
    /\ UNCHANGED <<cvars, pvars, xvars, use_google_maps, _use_google, gmaps_reply>>

NextRoute ==
    \/ OptimizeRouteTrivial
    \/ OptimizeRouteGoogle
    \/ OptimizeRouteNearest

SpecRoute == InitRoute /\ [][NextRoute]_vars

-----------------------------------------------------------------------------
\* Properties of optimize_route / _nearest_neighbor_route

IsPermutationOfInput(r) ==
    /\ Len(r) = Len(stops)
    /\ \A i \in 1..Len(stops) : Occurrences(r, i) = 1

\* the sequencer was called and its reply was used as the order
SequencerOrderUsed ==
    /\ gmaps_reply.kind = "order"
    /\ \A j \in 1..Len(gmaps_reply.order) : IndexOk(gmaps_reply.order[j])

\* C5 (as claimed): on every path optimize_route returns a permutation of the
\* input stops, whatever waypoint order the sequencer returned.
C5_AlwaysPermutation == rpc = "done" => IsPermutationOfInput(route)

\* the route was built by _nearest_neighbor_route
ByNearestNeighbor == rpc = "done" /\ Len(stops) > 1 /\ ~SequencerOrderUsed

\* C6: in a route built by _nearest_neighbor_route the stop at every position
\* is one of the stops not placed before it, none of those is nearer to the
\* previous position (the depot for the first position), and of the equally
\* near ones it is the first in input order.
C6_NearestFirst ==
    ByNearestNeighbor =>
        /\ Len(route) = Len(stops)
        /\ \A p \in 1..Len(route) :
              LET prev   == IF p = 1 THEN Rat(depot) ELSE StopLat(route[p - 1])
                  placed == {route[q] : q \in 1..(p - 1)}
                  left   == (1..Len(stops)) \ placed
                  d(i)   == _haversine_km(prev, StopLat(i))
              IN  /\ route[p] \in left
                  /\ \A i \in left :
                        /\ RatLe(d(route[p]), d(i))
                        /\ (RatLe(d(i), d(route[p])) => route[p] <= i)

\* a nearest-neighbour route that reorders its input and had to break a tie
C6_Witness ==
    /\ ByNearestNeighbor
    /\ Len(stops) = MaxRouteStops
    /\ route # [i \in 1..Len(stops) |-> i]
    /\ \E i, j \in 1..Len(stops) : i # j /\ stops[i].lat = stops[j].lat

\* C7: the sequencer is called only when it is requested, available and
\* there are at most 10 stops; when it was not called, raised or returned
\* no waypoint order, the result is the nearest-neighbour route of the input.
C7_FallbackIsNearestNeighbor ==
    rpc = "done" =>
        /\ (gmaps_reply.kind # "not_called" =>
               use_google_maps /\ _use_google
               /\ Len(stops) <= GoogleWaypointLimit)
        /\ (gmaps_reply.kind \in {"not_called", "raise", "no_route", "no_order"}
               => route = _nearest_neighbor_route)

\* the sequencer raised for a list that nearest-neighbour reorders
C7_Witness ==
    /\ rpc = "done"
    /\ gmaps_reply.kind = "raise"
    /\ route = _nearest_neighbor_route
    /\ route # [i \in 1..Len(stops) |-> i]

\* requested and available, but more than 10 stops: not called
C7_WitnessOverLimit ==
    /\ rpc = "done"
    /\ use_google_maps /\ _use_google
    /\ Len(stops) > GoogleWaypointLimit
    /\ gmaps_reply.kind = "not_called"

-----------------------------------------------------------------------------
\* plan_multi_routes (multi_planner.py)

\* an absent or None entry of a stop dict
None == <<>>

\* the stops tried: an optional window start, no window end, no service time
PlanStopRecords ==
    [window_start : {None, <<7, 0>>}, window_end : {None},
     service_minutes : {None}]

PlanStopLists == UNION {[1..n -> PlanStopRecords] : n \in 0..MaxPlanStops}

\* matrices of up to MaxMatrixDim rows of up to MaxMatrixDim cells; every
\* cell is 90 seconds
MatrixRows == UNION {[1..m -> {90}] : m \in 0..MaxMatrixDim}

Matrices == UNION {[1..m -> MatrixRows] : m \in 0..MaxMatrixDim}

\* the work window of the request: work_window_start, work_window_end
WorkWindowStart == <<9, 0>>

WorkWindowEnd == <<17, 0>>

NoSolution == [found |-> FALSE, paths |-> <<>>, times |-> <<>>]

\* (keys: the keys of the returned dict)
NoResult == [returned |-> FALSE, feasible |-> FALSE, error |-> "",
             drivers_used |-> 0, drivers_max |-> 0, routes |-> <<>>,
             keys |-> {}]

InitPlan ==
    /\ depot = 0
    /\ num_trucks = 1
    /\ max_stops_per_truck = 1
    /\ truck_capacity = 0
    /\ stops = <<>>
    /\ clusters = <<>>
    /\ iteration = 0
    /\ moved = 0
    /\ last_move = NoMove
    /\ pc = "idle"
    /\ ret = "none"
    /\ use_google_maps = FALSE
    /\ _use_google = FALSE
    /\ gmaps_reply = NotCalled
    /\ route = <<>>
    /\ rpc = "idle"
    /\ plan_stops \in PlanStopLists
    /\ durations_seconds \in Matrices
    /\ departure_time \in {<<8, 0>>, <<9, 30>>}
    /\ max_drivers \in 0..MaxDrivers
    /\ max_stops_per_driver \in 0..MaxStopsPerDriver
    /\ travel = <<>>
    /\ tw = <<>>
    /\ num_vehicles = 0
    /\ model_built = FALSE
    /\ solve_attempts = 0
    /\ strategies = <<>>
    /\ cumul_range = <<>>
    /\ sol = NoSolution
    /\ result = NoResult
    /\ ppc = "start"
    /\ IdlePlanRoute
    /\ IdleFullPlan
    /\ IdleMatrix

\* _min_of_day(_parse_hhmm(day, "hh:mm")): minutes since midnight
_min_of_day(t) == t[1] * 60 + t[2]

\* _format_time: the 12-hour clock reading of minutes since midnight of the
\* day (a time past midnight reads as the next day's clock)
_format_time(t) ==
    LET h24 == (t \div 60) % 24
    IN  [hour |-> IF h24 % 12 = 0 THEN 12 ELSE h24 % 12,
         minute |-> t % 60,
         ampm |-> IF h24 < 12 THEN "AM" ELSE "PM"]

\* sec_to_min: a huge value is kept, else seconds are rounded to whole
\* minutes (Python's round: halves go to the even minute), never below 0
sec_to_min(x) ==
    IF x > 100000000 THEN x
    ELSE IF x < 0 THEN 0
    ELSE LET q == x \div 60
             r == x % 60
         IN  IF r < 30 THEN q
             ELSE IF r > 30 THEN q + 1
             ELSE IF q % 2 = 0 THEN q ELSE q + 1

n_stops == Len(plan_stops)

n_nodes == 1 + n_stops

\* (a size test that counts the rows and forgets their lengths)
MatrixMismatchRowsOnly == Len(durations_seconds) # n_nodes

\* len(durations_seconds) != n_nodes or any(len(r) != n_nodes for r in ..)
MatrixMismatch ==
    \/ Len(durations_seconds) # n_nodes
    \/ \E r \in 1..Len(durations_seconds) :
          Len(durations_seconds[r]) # n_nodes

\* lines 72-76: return {"feasible": False, "error": "Matrix size mismatch.."}
PlanMatrixMismatch ==
    /\ ppc = "start"
    /\ MatrixMismatch
    /\ result' = [NoResult EXCEPT !.returned = TRUE,
                                  !.error = "Matrix size mismatch",
                                  !.keys = {"feasible", "error"}]
    /\ ppc' = "done"
    /\ UNCHANGED <<cvars, rvars, xvars, svars, plan_stops, durations_seconds,
                   departure_time, max_drivers, max_stops_per_driver, travel,
                   tw, num_vehicles, model_built, solve_attempts, sol>>

\* line 86: travel[i][j] = sec_to_min(durations_seconds[i][j])
TravelMatrix ==
    [i \in 1..n_nodes |->
        [j \in 1..n_nodes |-> sec_to_min(durations_seconds[i][j])]]

\* line 86 raises IndexError if a cell it reads is missing
TravelIndexError ==
    \E i \in 1..n_nodes :
        \/ i > Len(durations_seconds)
        \/ /\ i <= Len(durations_seconds)
           /\ Len(durations_seconds[i]) < n_nodes

\* lines 86-93 with stops: the debug block reads service[1], but service is
\* a local of plan_multi_routes that is first assigned at line 106:
\* UnboundLocalError
PlanDebugRaises ==
    /\ ppc = "start"
    /\ ~MatrixMismatch
    /\ n_stops > 0
    /\ travel' = IF TravelIndexError THEN <<>> ELSE TravelMatrix
    /\ ppc' = "raised"
    /\ UNCHANGED <<cvars, rvars, xvars, svars, plan_stops, durations_seconds,
                   departure_time, max_drivers, max_stops_per_driver, tw,
                   num_vehicles, model_built, solve_attempts, sol, result>>

\* lines 86-89 without stops: the debug block is skipped
PlanTravel ==
    /\ ppc = "start"
    /\ ~MatrixMismatch
    /\ n_stops = 0
    /\ travel' = IF TravelIndexError THEN <<>> ELSE TravelMatrix
    /\ ppc' = IF TravelIndexError THEN "raised" ELSE "travel"
    /\ UNCHANGED <<cvars, rvars, xvars, svars, plan_stops, durations_seconds,
                   departure_time, max_drivers, max_stops_per_driver, tw,
                   num_vehicles, model_built, solve_attempts, sol, result>>

\* depot_start = _min_of_day(depart_dt)
depot_start == _min_of_day(departure_time)

\* effective_open_min: the later of work window start and departure
effective_open_min ==
    Max(_min_of_day(WorkWindowStart), _min_of_day(departure_time))

\* lines 133-147: the window of one stop
StopWindow(s) ==
    <<IF s.window_start # None
      THEN Max(_min_of_day(s.window_start), depot_start)
      ELSE effective_open_min,
      IF s.window_end # None
      THEN _min_of_day(s.window_end)
      ELSE _min_of_day(WorkWindowEnd)>>

Min(a, b) == IF a < b THEN a ELSE b

\* lines 198-210: the range set on a node's time CumulVar: the depot's
\* window as it is (node 0, here 1), a stop's with its end moved 180
\* minutes later, not past 23:59
AppliedRange(node, w) ==
    IF node = 1 THEN w ELSE <<w[1], Min(w[2] + 180, 24 * 60 - 1)>>

\* lines 105-243: service, the time windows (the depot's is
\* (depot_start, 24 * 60)), num_vehicles = max(1, int(max_drivers)), and the
\* RoutingIndexManager / RoutingModel with its dimensions and disjunctions.
\* (The debug block at lines 190-195 is guarded by n_stops > 0, and no
\* request with stops gets past line 93.)
PlanBuildModel ==
    /\ ppc = "travel"
    /\ tw' = <<<<depot_start, 24 * 60>>>>
             \o [i \in 1..n_stops |-> StopWindow(plan_stops[i])]
    /\ num_vehicles' = Max(1, max_drivers)
    /\ model_built' = TRUE
    /\ cumul_range' = [node \in 1..n_nodes |-> AppliedRange(node, tw'[node])]
    /\ ppc' = "built"
    /\ UNCHANGED <<cvars, rvars, xvars, strategies, plan_stops, durations_seconds,
                   departure_time, max_drivers, max_stops_per_driver, travel,
                   solve_attempts, sol, result>>

\* What routing.SolveWithParameters returns for a model without stops: the
\* one assignment there is, every vehicle going from the depot to the depot,
\* leaving at the start of the depot's window.  (A model with stops never
\* reaches the engine: line 93 raises first.)
EmptyModelAssignment ==
    [found |-> TRUE,
     paths |-> [v \in 1..num_vehicles |-> <<0, 0>>],
     times |-> [v \in 1..num_vehicles |-> <<tw[1][1], tw[1][1]>>]]

\* lines 245-315: the first SolveWithParameters call finds the assignment,
\* so none of the "if not sol" retries is entered
PlanSolve ==
    /\ ppc = "built"
    /\ n_stops = 0
    /\ sol' = EmptyModelAssignment
    /\ solve_attempts' = solve_attempts + 1
    /\ strategies' = Append(strategies, "AUTOMATIC")
    /\ ppc' = "solved"
    /\ UNCHANGED <<cvars, rvars, xvars, cumul_range, plan_stops, durations_seconds,
                   departure_time, max_drivers, max_stops_per_driver, travel,
                   tw, num_vehicles, model_built, result>>

\* (an extraction that keeps the vehicles that only go depot -> depot)
IsUsedAlways(path) == TRUE

\* line 347: a vehicle is skipped if all(n == 0 for n in route_nodes)
IsUsed(path) == \E i \in 1..Len(path) : path[i] # 0

\* lines 354-375: the route dict of vehicle v (v counts from 1 here, as
\* driver_index does): its stops and its schedule rows
RECURSIVE NonDepot(_)
NonDepot(path) ==
    IF path = <<>> THEN <<>>
    ELSE (IF Head(path) # 0 THEN <<Head(path)>> ELSE <<>>)
         \o NonDepot(Tail(path))

RouteOf(v) ==
    [driver_index |-> v,
     stops |-> NonDepot(sol.paths[v]),
     schedule |-> [i \in 1..Len(sol.paths[v]) |->
                     [node |-> sol.paths[v][i],
                      eta |-> _format_time(sol.times[v][i])]]]

\* lines 324-375: the routes of the used vehicles, in vehicle order
RECURSIVE ExtractFrom(_)
ExtractFrom(v) ==
    IF v > num_vehicles THEN <<>>
    ELSE (IF IsUsed(sol.paths[v]) THEN <<RouteOf(v)>> ELSE <<>>)
         \o ExtractFrom(v + 1)

\* line 378: routes.sort(key = number of stops, reverse = True), stable
InsertByStops(t, x) ==
    LET p == Cardinality({j \in 1..Len(t) : Len(t[j].stops) >= Len(x.stops)})
    IN  SubSeq(t, 1, p) \o <<x>> \o SubSeq(t, p + 1, Len(t))

RECURSIVE SortByStops(_)
SortByStops(r) ==
    IF r = <<>> THEN <<>>
    ELSE InsertByStops(SortByStops(SubSeq(r, 1, Len(r) - 1)), r[Len(r)])

\* (a count that takes every available vehicle for a used one)
UsedVehicleCountAll == num_vehicles

\* lines 321, 351: used_vehicle_count is incremented once for each vehicle
\* that is not skipped at line 347
UsedVehicleCount ==
    Cardinality({v \in 1..num_vehicles : IsUsed(sol.paths[v])})

\* lines 320-399: extract the routes and return
PlanExtract ==
    /\ ppc = "solved"
    /\ \E routes \in {ExtractFrom(1)} :
          result' =
              IF UsedVehicleCount = 0 /\ n_stops > 0
              THEN [NoResult EXCEPT !.returned = TRUE,
                                    !.error = "no routes were extracted",
                                    !.keys = {"feasible", "error"}]
              ELSE [returned |-> TRUE, feasible |-> TRUE, error |-> "",
                    drivers_used |-> UsedVehicleCount,
                    drivers_max |-> num_vehicles,
                    routes |-> SortByStops(routes),
                    keys |-> {"feasible", "drivers_used", "drivers_max",
                              "drivers", "routes", "lunch"}]
    /\ ppc' = "done"
    /\ UNCHANGED <<cvars, rvars, xvars, svars, plan_stops, durations_seconds,
                   departure_time, max_drivers, max_stops_per_driver, travel,
                   tw, num_vehicles, model_built, solve_attempts, sol>>

NextPlan ==
    \/ PlanMatrixMismatch
    \/ PlanDebugRaises
    \/ PlanTravel
    \/ PlanBuildModel
    \/ PlanSolve
    \/ PlanExtract

SpecPlan == InitPlan /\ [][NextPlan]_vars

-----------------------------------------------------------------------------
\* Properties of plan_multi_routes

\* the matrix has exactly 1 + stops rows of 1 + stops cells
MatrixIsSquare ==
    /\ Len(durations_seconds) = 1 + Len(plan_stops)
    /\ \A r \in 1..Len(durations_seconds) :
          Len(durations_seconds[r]) = 1 + Len(plan_stops)

\* C8 (as claimed): with at least one stop and a matrix of the right size
\* plan_multi_routes never raises.
C8_NeverRaises ==
    (Len(plan_stops) >= 1 /\ MatrixIsSquare) => ppc # "raised"

\* C9: with a matrix that is not (1 + stops) x (1 + stops), plan_multi_routes
\* does not raise, and what it returns is feasible = false with the size
\* error, no routing model having been built and no solve attempted.
C9_MismatchRejectedFirst ==
    ~MatrixIsSquare =>
        /\ ppc \in {"start", "done"}
        /\ ~model_built
        /\ solve_attempts = 0
        /\ ppc = "done" =>
              /\ result.returned
              /\ ~result.feasible
              /\ result.error = "Matrix size mismatch"

\* the row count is right and a row is too short, and the call returned
C9_Witness ==
    /\ ppc = "done"
    /\ Len(durations_seconds) = 1 + Len(plan_stops)
    /\ ~MatrixIsSquare
    /\ ~result.feasible

RECURSIVE RoutesHolding(_, _)
RoutesHolding(routes, i) ==
    IF routes = <<>> THEN 0
    ELSE (IF i \in Range(Head(routes).stops) THEN 1 ELSE 0)
         + RoutesHolding(Tail(routes), i)

\* the returned dict carries a list of the stops left unassigned
HasUnassignedList == "unassigned" \in result.keys

C19_NoDriversRejected ==
    max_drivers <= 0 =>
        /\ ~model_built
        /\ solve_attempts = 0
        /\ ppc = "done" => ~result.feasible

\* C23: in every feasible plan_multi_routes result drivers_used is the
\* number of returned routes, every returned route holds at least one stop
\* (a vehicle that only goes depot -> depot is not reported), and
\* drivers_used is at most drivers_max.
C23_OnlyUsedVehiclesReported ==
    (result.returned /\ result.feasible) =>
        /\ result.drivers_used = Len(result.routes)
        /\ \A r \in 1..Len(result.routes) : Len(result.routes[r].stops) >= 1
        /\ result.drivers_used <= result.drivers_max

\* a feasible result has been returned from a solution in which two vehicles
\* go from the depot straight back to the depot, and neither is reported
C23_Witness ==
    /\ ppc = "done"
    /\ result.feasible
    /\ sol.found
    /\ num_vehicles >= 2
    /\ \A v \in 1..num_vehicles : ~IsUsed(sol.paths[v])
    /\ result.drivers_used = 0
    /\ result.drivers_max = num_vehicles

-----------------------------------------------------------------------------
\* plan_multi_routes: the solve ladder (lines 245-315).  SpecPlan takes the
\* engine to find the one assignment of a model without stops at its first
\* call.  The engine's interface does not promise that (a call returns None
\* when its time limit ends without an assignment, and the code provides for
\* None after every call), so SpecPlanRetry leaves each answer open.

\* lines 248, 266, 273, 280: the first_solution_strategy of the calls made
\* with the windows as built
ConstructionStrategies ==
    <<"AUTOMATIC", "PATH_CHEAPEST_ARC", "PATH_MOST_CONSTRAINED_ARC", "SAVINGS">>

\* line 300: the strategy of the call made with the relaxed windows
RelaxedStrategy == "PATH_CHEAPEST_ARC"

\* what routing.SolveWithParameters can return for a model without stops
EngineAnswers == {EmptyModelAssignment, NoSolution}

\* (a ladder that relaxes the windows as soon as one strategy has failed)
AfterFailureRelaxes(k) == "relax"

\* where the code goes after the k-th call returned None: the next "if not
\* sol" block, the last of which (line 284) relaxes the windows
AfterFailure(k) ==
    IF k < Len(ConstructionStrategies) THEN "built" ELSE "relax"

\* lines 262-282: one call with the windows as built; "if not sol" lets the
\* next call happen only when this one returned None
PlanSolveConstruction ==
    /\ ppc = "built"
    /\ n_stops = 0
    /\ solve_attempts < Len(ConstructionStrategies)
    /\ \E answer \in EngineAnswers :
          /\ sol' = answer
          /\ ppc' = IF answer.found THEN "solved"
                    ELSE AfterFailure(solve_attempts + 1)
    /\ solve_attempts' = solve_attempts + 1
    /\ strategies' =
          Append(strategies, ConstructionStrategies[solve_attempts + 1])
    /\ UNCHANGED <<cvars, rvars, xvars, cumul_range, plan_stops, durations_seconds,
                   departure_time, max_drivers, max_stops_per_driver, travel,
                   tw, num_vehicles, model_built, result>>

\* lines 311-315: return {"feasible": False, "error": "No feasible plan .."}
NoFeasiblePlan ==
    [NoResult EXCEPT !.returned = TRUE,
                     !.error = "No feasible plan found",
                     !.keys = {"feasible", "error"}]

\* lines 284-315: every node's range becomes (depot_start, 24 * 60 - 1), one
\* more call is made, and if it returns None too the function returns
PlanSolveRelaxed ==
    /\ ppc = "relax"
    /\ cumul_range' = [node \in 1..n_nodes |-> <<depot_start, 24 * 60 - 1>>]
    /\ solve_attempts' = solve_attempts + 1
    /\ strategies' = Append(strategies, RelaxedStrategy)
    /\ \E answer \in EngineAnswers :
          /\ sol' = answer
          /\ ppc' = IF answer.found THEN "solved" ELSE "done"
          /\ result' = IF answer.found THEN result ELSE NoFeasiblePlan
    /\ UNCHANGED <<cvars, rvars, xvars, plan_stops, durations_seconds,
                   departure_time, max_drivers, max_stops_per_driver, travel,
                   tw, num_vehicles, model_built>>

NextPlanRetry ==
    \/ PlanMatrixMismatch
    \/ PlanDebugRaises
    \/ PlanTravel
    \/ PlanBuildModel
    \/ PlanSolveConstruction
    \/ PlanSolveRelaxed
    \/ PlanExtract

SpecPlanRetry == InitPlan /\ [][NextPlanRetry]_vars

\* the strategies of the five calls, in the order the code makes them
Ladder == ConstructionStrategies \o <<RelaxedStrategy>>

\* C15: the solve calls are made strictly in sequence: there are never more
\* than 5, the k-th call uses the k-th strategy of the ladder, a call is
\* made only when no call before it returned an assignment, the windows are
\* relaxed only after all four construction strategies returned none, and
\* "No feasible plan found" is returned only after the fifth, relaxed call
\* returned none as well.
C15_StrategiesInSequence ==
    /\ [](/\ solve_attempts <= 5
          /\ Len(strategies) = solve_attempts
          /\ \A k \in 1..Len(strategies) : strategies[k] = Ladder[k])
    /\ [][solve_attempts' # solve_attempts =>
            /\ solve_attempts' = solve_attempts + 1
            /\ ~sol.found]_vars
    /\ [][(model_built /\ cumul_range' # cumul_range) =>
            /\ solve_attempts = Len(ConstructionStrategies)
            /\ ~sol.found]_vars
    /\ [](result.error = "No feasible plan found" =>
            /\ solve_attempts = 5
            /\ ~sol.found
            /\ \A node \in 1..n_nodes :
                  cumul_range[node] = <<depot_start, 24 * 60 - 1>>)

\* all five calls returned none and the function reported it
C15_Witness ==
    /\ ppc = "done"
    /\ result.error = "No feasible plan found"
    /\ solve_attempts = 5
    /\ strategies = Ladder

-----------------------------------------------------------------------------
\* plan_route / _solve_once (planner.py)

MaxDeliveries == 3    \* most stops handed to plan_route

\* DeliveryRouter and plan_multi_routes are not running
IdleRouter ==
    /\ depot = 0
    /\ num_trucks = 1
    /\ max_stops_per_truck = 1
    /\ truck_capacity = 0
    /\ stops = <<>>
    /\ clusters = <<>>
    /\ iteration = 0
    /\ moved = 0
    /\ last_move = NoMove
    /\ pc = "idle"
    /\ ret = "none"
    /\ use_google_maps = FALSE
    /\ _use_google = FALSE
    /\ gmaps_reply = NotCalled
    /\ route = <<>>
    /\ rpc = "idle"

IdlePlanMulti ==
    /\ plan_stops = <<>>
    /\ durations_seconds = <<>>
    /\ departure_time = <<0, 0>>
    /\ max_drivers = 0
    /\ max_stops_per_driver = 0
    /\ travel = <<>>
    /\ tw = <<>>
    /\ num_vehicles = 0
    /\ model_built = FALSE
    /\ solve_attempts = 0
    /\ strategies = <<>>
    /\ cumul_range = <<>>
    /\ sol = NoSolution
    /\ result = NoResult
    /\ ppc = "idle"

\* the stops tried: two addresses (two stops may share one), an optional
\* window start, no window end
DeliveryRecords == [address : {"a", "b"}, window_start : {None, <<7, 0>>}]

\* a request to plan_route: the stops, the break's length and whether it may
\* be skipped (the matrix is taken to have its n_deliv + 2 rows and columns)
InitPlanRoute ==
    /\ IdleRouter
    /\ IdlePlanMulti
    /\ IdleFullPlan
    /\ IdleMatrix
    /\ n_deliv \in 0..MaxDeliveries
    /\ deliveries \in [1..n_deliv -> DeliveryRecords]
    /\ depart_time \in {<<8, 0>>, <<9, 30>>}
    /\ solve_tw = <<>>
    /\ lunch_minutes \in {0, 30}
    /\ lunch_skippable \in BOOLEAN
    /\ use_lunch_calls = <<>>
    /\ r_first = NoDict
    /\ r_second = NoDict
    /\ route_result = NoDict
    /\ lpc = "start"

\* the orders in which one vehicle can visit the deliveries 1..n
VisitOrders(n) ==
    {o \in [1..n -> 1..n] : \A i, j \in 1..n : o[i] = o[j] => i = j}

\* _solve_once, lines 127-128: return {"feasible": False}
SolveOnceInfeasible == [NoDict EXCEPT !.keys = {"feasible"}]

\* _solve_once, lines 70-80: the window of each node: the start depot from
\* departure to the end of work, each stop its own start or the start of
\* work and (no stop declares an end) the end of work, the return depot
\* from departure to three hours after the end of work, not past 23:59
SolveOnceTw ==
    <<<<_min_of_day(depart_time), _min_of_day(WorkWindowEnd)>>>>
    \o [i \in 1..n_deliv |->
           <<IF deliveries[i].window_start # None
             THEN _min_of_day(deliveries[i].window_start)
             ELSE _min_of_day(WorkWindowStart),
             _min_of_day(WorkWindowEnd)>>]
    \o <<<<_min_of_day(depart_time),
           Min(24 * 60 - 1, _min_of_day(WorkWindowEnd) + 180)>>>>

\* (an extraction that leaves out the end node)
VisitNodesOpen(order) == <<0>> \o order

\* lines 83, 131-144: visit_nodes.  The model has one vehicle from node 0 to
\* node n_nodes - 1 and no disjunction, so the engine's route goes through
\* every delivery node once; the loop collects the nodes up to the end node
\* and lines 141-144 append the end node
VisitNodes(order) == <<0>> \o order \o <<n_deliv + 1>>

\* visit_times: the engine's times, here the departure time followed by
\* equal steps
VisitTimes(nodes, step) ==
    [i \in 1..Len(nodes) |-> _min_of_day(depart_time) + (i - 1) * step]

\* lines 149-167: one schedule row
ScheduleRow(node, tmin) ==
    IF node = 0
    THEN [type |-> "DEPOT_START", address |-> "depot",
          eta |-> _format_time(tmin)]
    ELSE IF node = n_deliv + 2 - 1
    THEN [type |-> "DEPOT_RETURN", address |-> "depot",
          eta |-> _format_time(tmin)]
    ELSE [type |-> "DELIVERY", address |-> deliveries[node].address,
          eta |-> _format_time(tmin)]

\* lines 148, 167: delivery_addresses, the addresses of the DELIVERY rows
RECURSIVE DeliveryAddresses(_)
DeliveryAddresses(rows) ==
    IF rows = <<>> THEN <<>>
    ELSE (IF Head(rows).type = "DELIVERY" THEN <<Head(rows).address>>
          ELSE <<>>)
         \o DeliveryAddresses(Tail(rows))

\* _solve_once, lines 130-174: the dict built from the engine's route
SolveOnceFeasible(order, step) ==
    LET nodes == VisitNodes(order)
        times == VisitTimes(nodes, step)
        schedule == [i \in 1..Len(nodes) |-> ScheduleRow(nodes[i], times[i])]
    IN  [feasible |-> TRUE,
         keys |-> {"feasible", "schedule", "ordered_deliveries", "return_eta"},
         schedule |-> schedule,
         ordered_deliveries |-> DeliveryAddresses(schedule),
         return_eta |-> schedule[Len(schedule)].eta,
         lunch |-> ""]

\* what a call of _solve_once can return: the engine finds no assignment
\* (the windows, or the break when it is in the model, cannot be met), or it
\* finds a route
SolveOnceAnswers ==
    {SolveOnceInfeasible}
    \cup {SolveOnceFeasible(o, step) : o \in VisitOrders(n_deliv),
                                      step \in {0, 10}}

\* d["lunch"] = text
SetLunch(d, text) == [d EXCEPT !.lunch = text, !.keys = @ \cup {"lunch"}]

\* lines 191-203: r = _solve_once(..., use_lunch=True)
PlanRouteFirstSolve ==
    /\ lpc = "start"
    /\ r_first' \in SolveOnceAnswers
    /\ solve_tw' = SolveOnceTw
    /\ use_lunch_calls' = Append(use_lunch_calls, TRUE)
    /\ lpc' = "first"
    /\ UNCHANGED <<cvars, rvars, pvars, fvars, mvars, n_deliv, deliveries,
                   depart_time,
                   lunch_minutes,
                   lunch_skippable, r_second, route_result>>

\* lines 204-206: the first solve is feasible
PlanRouteScheduled ==
    /\ lpc = "first"
    /\ r_first.feasible
    /\ route_result' =
          SetLunch(r_first, "Scheduled (solver placed a lunch break if possible)")
    /\ lpc' = "done"
    /\ UNCHANGED <<cvars, rvars, pvars, fvars, mvars, n_deliv, deliveries,
                   depart_time,
                   lunch_minutes,
                   lunch_skippable, use_lunch_calls, r_first, r_second,
                   solve_tw>>

\* (a retry that does not look at the skippable flag)
RetryWithoutLunchAlways == TRUE

\* line 208: if lunch_skippable
RetryWithoutLunch == lunch_skippable

\* (a retry that hands back r2 as _solve_once built it)
SkippedLunchUnmarked(d) == d

\* lines 222-224: if r2.get("feasible"): r2["lunch"] = "Skipped .."; return r2
SkippedLunch(d) ==
    IF d.feasible THEN SetLunch(d, "Skipped (needed for feasibility)") ELSE d

\* lines 208-224: r2 = _solve_once(..., use_lunch=False); return r2
PlanRouteSecondSolve ==
    /\ lpc = "first"
    /\ ~r_first.feasible
    /\ RetryWithoutLunch
    /\ \E answer \in SolveOnceAnswers :
          /\ r_second' = answer
          /\ route_result' = SkippedLunch(answer)
    /\ solve_tw' = SolveOnceTw
    /\ use_lunch_calls' = Append(use_lunch_calls, FALSE)
    /\ lpc' = "done"
    /\ UNCHANGED <<cvars, rvars, pvars, fvars, mvars, n_deliv, deliveries,
                   depart_time,
                   lunch_minutes,
                   lunch_skippable, r_first>>

\* lines 226-227: the break is required
PlanRouteRequired ==
    /\ lpc = "first"
    /\ ~r_first.feasible
    /\ ~RetryWithoutLunch
    /\ route_result' =
          SetLunch(r_first, "No feasible route with required lunch")
    /\ lpc' = "done"
    /\ UNCHANGED <<cvars, rvars, pvars, fvars, mvars, n_deliv, deliveries,
                   depart_time,
                   lunch_minutes,
                   lunch_skippable, use_lunch_calls, r_first, r_second,
                   solve_tw>>

NextPlanRoute ==
    \/ PlanRouteFirstSolve
    \/ PlanRouteScheduled
    \/ PlanRouteSecondSolve
    \/ PlanRouteRequired

SpecPlanRoute == InitPlanRoute /\ [][NextPlanRoute]_vars

-----------------------------------------------------------------------------
\* Properties of plan_route

\* C16: when the solve with the break found nothing, the break is skippable
\* and the solve without the break found a route, plan_route returns a
\* feasible dict that carries the schedule of that route and reports the
\* break as skipped.
C16_SkippedBreakStillFeasible ==
    (/\ lpc = "done"
     /\ ~r_first.feasible
     /\ lunch_skippable
     /\ r_second.feasible) =>
        /\ route_result.feasible
        /\ "schedule" \in route_result.keys
        /\ route_result.schedule = r_second.schedule
        /\ Len(route_result.schedule) = n_deliv + 2
        /\ "lunch" \in route_result.keys
        /\ route_result.lunch = "Skipped (needed for feasibility)"

\* a request with a break and with stops, planned at the second solve
C16_Witness ==
    /\ lpc = "done"
    /\ lunch_minutes > 0
    /\ n_deliv = MaxDeliveries
    /\ lunch_skippable
    /\ ~r_first.feasible
    /\ r_second.feasible
    /\ route_result.feasible

\* C17: the first solve is made with the break; when it found nothing and
\* the break is not skippable the result is infeasible and no second solve
\* was made; a second solve, without the break, is made only after a first
\* one that found nothing with a skippable break; never more than two.
C17_SecondSolveOnlyIfSkippable ==
    /\ Len(use_lunch_calls) <= 2
    /\ Len(use_lunch_calls) >= 1 => use_lunch_calls[1]
    /\ Len(use_lunch_calls) = 2 =>
          /\ ~use_lunch_calls[2]
          /\ ~r_first.feasible
          /\ lunch_skippable
    /\ (lpc = "done" /\ ~r_first.feasible /\ ~lunch_skippable) =>
          /\ ~route_result.feasible
          /\ use_lunch_calls = <<TRUE>>

\* a required break that could not be placed: one solve, infeasible
C17_Witness ==
    /\ lpc = "done"
    /\ lunch_minutes > 0
    /\ ~lunch_skippable
    /\ ~r_first.feasible
    /\ use_lunch_calls = <<TRUE>>
    /\ ~route_result.feasible

\* the text the lunch field must carry for what happened
LunchOutcome ==
    IF r_first.feasible
    THEN "Scheduled (solver placed a lunch break if possible)"
    ELSE IF lunch_skippable /\ r_second.feasible
    THEN "Skipped (needed for feasibility)"
    ELSE "No feasible route with required lunch"

\* C18 (as claimed): every dict plan_route returns has a lunch field, and it
\* names the outcome: scheduled, skipped for feasibility, or infeasible.
C18_LunchAlwaysReported ==
    lpc = "done" =>
        /\ "lunch" \in route_result.keys
        /\ route_result.lunch \in
              {"Scheduled (solver placed a lunch break if possible)",
               "Skipped (needed for feasibility)",
               "No feasible route with required lunch"}
        /\ (r_first.feasible \/ ~lunch_skippable \/ r_second.feasible) =>
              route_result.lunch = LunchOutcome

\* C29: every feasible dict of _solve_once, and so of plan_route, visits
\* every input stop once: ordered_deliveries holds each address as often as
\* the input stops do, the schedule has one DELIVERY row for each stop
\* between a first row DEPOT_START and a last row DEPOT_RETURN, and
\* return_eta is the eta of the last row.
C29_EveryStopVisitedOnce ==
    LET Count(seq, a) == Cardinality({i \in 1..Len(seq) : seq[i] = a})
        InputCount(a) ==
            Cardinality({i \in 1..n_deliv : deliveries[i].address = a})
        Complete(d) ==
            /\ Len(d.ordered_deliveries) = n_deliv
            /\ \A a \in {"a", "b", "depot"} :
                   Count(d.ordered_deliveries, a) = InputCount(a)
            /\ Len(d.schedule) = n_deliv + 2
            /\ d.schedule[1].type = "DEPOT_START"
            /\ d.schedule[Len(d.schedule)].type = "DEPOT_RETURN"
            /\ \A i \in 2..(Len(d.schedule) - 1) :
                   /\ d.schedule[i].type = "DELIVERY"
                   /\ d.schedule[i].address = d.ordered_deliveries[i - 1]
            /\ "return_eta" \in d.keys
            /\ d.return_eta = d.schedule[Len(d.schedule)].eta
    IN  /\ r_first.feasible => Complete(r_first)
        /\ r_second.feasible => Complete(r_second)
        /\ route_result.feasible => Complete(route_result)

\* a feasible plan for the most stops, two of them at one address, visited
\* in another order than they were given, returning after it left
C29_Witness ==
    /\ lpc = "done"
    /\ route_result.feasible
    /\ n_deliv = MaxDeliveries
    /\ deliveries[1].address = deliveries[n_deliv].address
    /\ deliveries[2].address # deliveries[1].address
    /\ route_result.ordered_deliveries[1] = deliveries[2].address
    /\ route_result.return_eta # route_result.schedule[1].eta

\* C30 (as claimed): once _solve_once has set its time windows, the window
\* start of every stop is at least the departure time, for a declared start
\* and for a defaulted one.
C30_WindowStartFlooredAtDeparture ==
    solve_tw # <<>> =>
        \A i \in 1..n_deliv : solve_tw[i + 1][1] >= _min_of_day(depart_time)

-----------------------------------------------------------------------------
\* DeliveryRouter.create_full_routing_plan

FullMaxStopsPerTruck == 2 \* max_stops_per_truck in 1..FullMaxStopsPerTruck

\* a router, with or without a Google client, and the call
\* create_full_routing_plan(stops, use_google_optimization)
InitFullPlan ==
    /\ depot = 0
    /\ num_trucks \in 1..MaxTrucks
    /\ max_stops_per_truck \in 1..FullMaxStopsPerTruck
    /\ truck_capacity \in CapacityValues
    /\ stops \in StopLists
    /\ clusters = <<>>
    /\ iteration = 0
    /\ moved = 0
    /\ last_move = NoMove
    /\ pc = "start"
    /\ ret = "none"
    /\ use_google_maps \in BOOLEAN
    /\ _use_google \in BOOLEAN
    /\ gmaps_reply = NotCalled
    /\ route = <<>>
    /\ rpc = "idle"
    /\ IdlePlanMulti
    /\ IdlePlanRoute
    /\ IdleMatrix
    /\ plan = <<>>
    /\ summary = <<>>
    /\ truck = 0
    /\ fpc = "start"

\* sorted(truck_stops, key = gallons, reverse = True): stable, descending
InsertByGallons(t, x) ==
    LET p == Cardinality({j \in 1..Len(t) : Gallons(t[j]) >= Gallons(x)})
    IN  SubSeq(t, 1, p) \o <<x>> \o SubSeq(t, p + 1, Len(t))

RECURSIVE SortByGallons(_)
SortByGallons(v) ==
    IF v = <<>> THEN <<>>
    ELSE InsertByGallons(SortByGallons(SubSeq(v, 1, Len(v) - 1)), v[Len(v)])

\* lines 294-300: keep a stop when it still fits
RECURSIVE ValidStops(_, _)
ValidStops(rest, current_gallons) ==
    IF rest = <<>> THEN <<>>
    ELSE IF current_gallons + Gallons(Head(rest)) <= truck_capacity
    THEN <<Head(rest)>>
         \o ValidStops(Tail(rest), current_gallons + Gallons(Head(rest)))
    ELSE ValidStops(Tail(rest), current_gallons)

\* lines 289-301: the stops of a truck, cut down when they are over capacity
TruckStops(v) ==
    IF _get_cluster_gallons(v) > truck_capacity
    THEN ValidStops(SortByGallons(v), 0)
    ELSE v

\* v[i] for a Python index i into the list v
IndexOkIn(v, i) == -Len(v) <= i /\ i < Len(v)

PyIndexIn(v, i) == IF i >= 0 THEN i + 1 ELSE Len(v) + i + 1

\* _optimize_with_google_maps(v), given what directions did
OptimizeWithGoogleMapsOf(v, reply) ==
    IF reply.kind # "order"
    THEN [ok |-> FALSE, stops |-> <<>>]
    ELSE IF \E j \in 1..Len(reply.order) : ~IndexOkIn(v, reply.order[j])
    THEN [ok |-> FALSE, stops |-> <<>>]
    ELSE [ok |-> TRUE,
          stops |-> [j \in 1..Len(reply.order) |->
                        v[PyIndexIn(v, reply.order[j])]]]

\* optimize_route(v, use_google_maps): the client is called for 2..10 stops
\* when it is requested and there is one
ConsultsFor(v) ==
    /\ Len(v) > 1
    /\ use_google_maps
    /\ _use_google
    /\ Len(v) <= GoogleWaypointLimit

\* optimize_route(v, use_google_maps), given what directions did if called
OptimizeRouteOf(v, reply) ==
    IF Len(v) <= 1 THEN v
    ELSE IF ConsultsFor(v) /\ OptimizeWithGoogleMapsOf(v, reply).ok
    THEN OptimizeWithGoogleMapsOf(v, reply).stops
    ELSE NearestNeighborLoop(v, Rat(depot))

\* lines 287-310: one turn of the loop over clusters.items() (the metrics
\* are distances and durations and are not carried here)
FullPlanTruck ==
    /\ fpc = "start"
    /\ pc = "done"
    /\ truck < Cardinality(DOMAIN clusters)
    /\ \E v \in {TruckStops(clusters[truck])} :
       \E reply \in (IF ConsultsFor(v) THEN GmapsReplies(Len(v))
                      ELSE {NotCalled}) :
       \E ordered \in {OptimizeRouteOf(v, reply)} :
          /\ gmaps_reply' = reply
          /\ plan' = Append(plan, [key |-> truck + 1,
                                   stops |-> ordered,
                                   stop_count |-> Len(ordered),
                                   total_gallons |->
                                       _get_cluster_gallons(ordered)])
    /\ truck' = truck + 1
    /\ UNCHANGED <<cvars, pvars, lvars, mvars, use_google_maps, _use_google, route,
                   rpc, summary, fpc>>

\* lines 312-320: the summary, and return plan
FullPlanReturn ==
    /\ fpc = "start"
    /\ pc = "done"
    /\ truck = Cardinality(DOMAIN clusters)
    /\ summary' = [num_trucks |-> Cardinality(DOMAIN clusters),
                   total_stops |-> Len(stops)]
    /\ fpc' = "done"
    /\ UNCHANGED <<cvars, rvars, pvars, lvars, mvars, plan, truck>>

\* line 284: cluster_stops raised, and so does create_full_routing_plan
FullPlanRaise ==
    /\ fpc = "start"
    /\ pc = "raised"
    /\ fpc' = "raised"
    /\ UNCHANGED <<cvars, rvars, pvars, lvars, mvars, plan, summary,
                   truck>>

NextFullPlan ==
    \/ NextCluster
    \/ FullPlanTruck
    \/ FullPlanReturn
    \/ FullPlanRaise

SpecFullPlan == InitFullPlan /\ [][NextFullPlan]_vars

\* C20 (as claimed): in the plan create_full_routing_plan returns, every
\* truck's total_gallons is at most truck_capacity (the demands are never
\* negative here), also when balancing ended with an overloaded cluster.
C20_TrucksWithinCapacity ==
    fpc = "done" =>
        \A t \in 1..Len(plan) : plan[t].total_gallons <= truck_capacity

-----------------------------------------------------------------------------
\* compute_matrix_seconds / _google_matrix_chunk (maps.py)

\* line 13: the most origins, and the most destinations, of one request
CHUNK == 25

\* line 16
UNROUTABLE_PENALTY_SECONDS == 6 * 60 * 60

\* the node lists tried: none, one chunk, and one node more than a chunk
\* holds (four chunks)
NodeCounts == {0, 1, 2, CHUNK + 1}

\* the status codes the remote service is taken to answer with
StatusCodes == {200, 404, 503}

\* a "duration" text: a number, kept in tenths, with or without the final
\* "s" ("7.9s", "-5.5s", "0s", "7.9")
DurationTexts ==
    {[ends_with_s |-> TRUE, tenths |-> 79],
     [ends_with_s |-> TRUE, tenths |-> -55],
     [ends_with_s |-> TRUE, tenths |-> 0],
     [ends_with_s |-> FALSE, tenths |-> 79]}

\* the elements of a 200 response that are tried.  pair is None when
\* originIndex or destinationIndex is missing, else <<originIndex,
\* destinationIndex>>: the first pair of the chunk, or the one before the
\* first origin with the second destination; duration is None when missing;
\* a missing condition is the text "None"
Elements ==
    [pair : {None, <<0, 0>>, <<-1, 1>>},
     status : {"OK", "NOT_FOUND"},
     condition : {"None", "ROUTE_NOT_FOUND"},
     duration : {None} \cup {<<d>> : d \in DurationTexts}]

\* what client.post(...) can do: raise (kind "exception"), or answer with a
\* status code; a 200 answer has a body that is not a list of elements
\* (kind "not_a_list": resp.json() raises, or el.get does), or a list
Responses ==
    {[kind |-> "exception", code |-> 0, data |-> <<>>]}
    \cup {[kind |-> "status", code |-> c, data |-> <<>>] :
             c \in StatusCodes \ {200}}
    \cup {[kind |-> "not_a_list", code |-> 200, data |-> <<>>]}
    \cup {[kind |-> "status", code |-> 200, data |-> d] :
             d \in {<<>>} \cup {<<e>> : e \in Elements}}

\* a request for the matrix of n nodes, with or without an API key
InitMatrix ==
    /\ IdleRouter
    /\ IdlePlanMulti
    /\ IdlePlanRoute
    /\ IdleFullPlan
    /\ n_nodes_m \in NodeCounts
    /\ has_google_key \in BOOLEAN
    /\ matrix = <<>>
    /\ bad_pairs_count = 0
    /\ calls = 0
    /\ chunk_at = <<0, 0>>
    /\ statuses = <<>>
    /\ posts = 0
    /\ chunk_outcome = "none"
    /\ chunks_returned = 0
    /\ matrix_result = NoMatrixResult
    /\ mpc = "start"

\* lines 23-38: base 6 minutes + 4 minutes per index step, 0 on the diagonal
_synthetic_matrix_seconds(n) ==
    [i \in 1..n |->
        [j \in 1..n |-> IF i = j THEN 0 ELSE 6 * 60 + Abs(i - j) * 4 * 60]]

\* int(float(text)): the fraction is cut off, towards zero
IntOfTenths(t) == IF t >= 0 THEN t \div 10 ELSE -((-t) \div 10)

\* lines 41-50: None, or <<seconds>>
_parse_duration_seconds(duration) ==
    IF duration = None THEN None
    ELSE IF duration[1].ends_with_s THEN <<IntOfTenths(duration[1].tenths)>>
    ELSE None

\* lines 135-137: the penalty everywhere, 0 on the diagonal
PenaltyMatrix(n) ==
    [i \in 1..n |->
        [j \in 1..n |-> IF i = j THEN 0 ELSE UNROUTABLE_PENALTY_SECONDS]]

\* lines 131-133: no nodes
MatrixNoNodes ==
    /\ mpc = "start"
    /\ n_nodes_m = 0
    /\ matrix_result' = [returned |-> TRUE, matrix |-> <<>>,
                         source |-> "synthetic"]
    /\ mpc' = "done"
    /\ UNCHANGED <<cvars, rvars, pvars, lvars, fvars, n_nodes_m,
                   has_google_key, matrix, bad_pairs_count, calls, chunk_at,
                   statuses, posts, chunk_outcome, chunks_returned>>

\* lines 135-141: no API key
MatrixNoKey ==
    /\ mpc = "start"
    /\ n_nodes_m > 0
    /\ ~has_google_key
    /\ matrix' = PenaltyMatrix(n_nodes_m)
    /\ matrix_result' = [returned |-> TRUE,
                         matrix |-> _synthetic_matrix_seconds(n_nodes_m),
                         source |-> "synthetic"]
    /\ mpc' = "done"
    /\ UNCHANGED <<cvars, rvars, pvars, lvars, fvars, n_nodes_m,
                   has_google_key, bad_pairs_count, calls, chunk_at,
                   statuses, posts, chunk_outcome, chunks_returned>>

\* lines 135-152: with a key, up to the first _google_matrix_chunk call
MatrixBegin ==
    /\ mpc = "start"
    /\ n_nodes_m > 0
    /\ has_google_key
    /\ matrix' = PenaltyMatrix(n_nodes_m)
    /\ chunk_at' = <<0, 0>>
    /\ calls' = 1
    /\ statuses' = <<>>
    /\ posts' = 0
    /\ mpc' = "chunk"
    /\ UNCHANGED <<cvars, rvars, pvars, lvars, fvars, n_nodes_m,
                   has_google_key, bad_pairs_count, chunk_outcome,
                   chunks_returned, matrix_result>>

\* (a retry test that takes every status but 200 for a transient one)
IsTransientAnyFailure(code) == code # 200

\* line 114: resp.status_code in (429, 500, 502, 503, 504)
IsTransient(code) == code \in {429, 500, 502, 503, 504}

\* line 75: for attempt in range(4)
Attempts == 4

\* lines 148, 150: the chunk after <<i0, j0>> (j0 runs inside i0); the loops
\* are over when i0 reaches n
NextChunkAt(at) ==
    IF at[2] + CHUNK < n_nodes_m THEN <<at[1], at[2] + CHUNK>>
    ELSE <<at[1] + CHUNK, 0>>

\* a Python list of length len takes the indices -len .. len - 1
PyIndexOk(k, len) == -len <= k /\ k < len

\* the 1-based place of Python index k in a list of length len
PyPlace(k, len) == IF k < 0 THEN len + k + 1 ELSE k + 1

\* lines 91-110: what one element does to out_matrix and bad_pairs:
\* "skip" (an index is missing), "raise" (IndexError at out_matrix[i][j]),
\* or "write" with the value written
ElementEffect(el, at) ==
    IF el.pair = None
    THEN [kind |-> "skip", i |-> 0, j |-> 0, value |-> 0, bad |-> FALSE]
    ELSE LET i == at[1] + el.pair[1]
             j == at[2] + el.pair[2]
             dur == _parse_duration_seconds(el.duration)
             ok == /\ el.status = "OK"
                   /\ dur # None
                   /\ el.condition \in {"None", "ROUTE_EXISTS"}
         IN  IF ~PyIndexOk(i, n_nodes_m) \/ ~PyIndexOk(j, n_nodes_m)
             THEN [kind |-> "raise", i |-> 0, j |-> 0, value |-> 0,
                   bad |-> FALSE]
             ELSE [kind |-> "write",
                   i |-> PyPlace(i, n_nodes_m),
                   j |-> PyPlace(j, n_nodes_m),
                   value |-> IF ok THEN Max(0, dur[1])
                             ELSE UNROUTABLE_PENALTY_SECONDS,
                   bad |-> ~ok]

\* (a fallback that hands back the matrix as the chunks left it)
FallbackKeepsMatrix ==
    [returned |-> TRUE, matrix |-> matrix, source |-> "google"]

\* lines 169-178: except Exception: the synthetic matrix, source "synthetic"
Fallback ==
    [returned |-> TRUE, matrix |-> _synthetic_matrix_seconds(n_nodes_m),
     source |-> "synthetic"]

\* lines 75-112: a post answered 200 with a list the loop gets through: the
\* chunk returns, and compute_matrix_seconds goes on to the next chunk
ChunkPostOk ==
    /\ mpc = "chunk"
    /\ posts < Attempts
    /\ \E resp \in Responses :
          /\ resp.kind = "status"
          /\ resp.code = 200
          /\ statuses' = Append(statuses, resp.code)
          /\ \E eff \in {IF resp.data = <<>>
                         THEN [kind |-> "skip", i |-> 0, j |-> 0,
                               value |-> 0, bad |-> FALSE]
                         ELSE ElementEffect(resp.data[1], chunk_at)} :
                /\ eff.kind # "raise"
                /\ matrix' = IF eff.kind = "write"
                             THEN [matrix EXCEPT ![eff.i][eff.j] = eff.value]
                             ELSE matrix
                /\ bad_pairs_count' = bad_pairs_count + (IF eff.bad THEN 1 ELSE 0)
    /\ posts' = posts + 1
    /\ chunk_outcome' = "returned"
    /\ chunks_returned' = chunks_returned + 1
    /\ mpc' = IF NextChunkAt(chunk_at)[1] < n_nodes_m THEN "next" ELSE "collected"
    /\ UNCHANGED <<cvars, rvars, pvars, lvars, fvars, n_nodes_m,
                   has_google_key, calls, chunk_at, matrix_result>>

\* lines 146-152: the next _google_matrix_chunk call begins
MatrixNextChunk ==
    /\ mpc = "next"
    /\ chunk_at' = NextChunkAt(chunk_at)
    /\ calls' = calls + 1
    /\ statuses' = <<>>
    /\ posts' = 0
    /\ chunk_outcome' = "none"
    /\ mpc' = "chunk"
    /\ UNCHANGED <<cvars, rvars, pvars, lvars, fvars, n_nodes_m,
                   has_google_key, matrix, bad_pairs_count, chunks_returned,
                   matrix_result>>

\* lines 114-116: a transient status before the last attempt: sleep, then
\* post again
ChunkPostRetry ==
    /\ mpc = "chunk"
    /\ posts < Attempts - 1
    /\ \E resp \in Responses :
          /\ resp.kind = "status"
          /\ IsTransient(resp.code)
          /\ statuses' = Append(statuses, resp.code)
    /\ posts' = posts + 1
    /\ UNCHANGED <<cvars, rvars, pvars, lvars, fvars, n_nodes_m,
                   has_google_key, matrix, bad_pairs_count, calls, chunk_at,
                   chunk_outcome, chunks_returned, matrix_result, mpc>>

\* the ways a _google_matrix_chunk call raises: the post raises; the body
\* is no list of elements; an element's index is outside the matrix; the
\* status is neither 200 nor transient (line 118); the last attempt gets a
\* transient status (line 120).  compute_matrix_seconds catches it (lines
\* 169-178) and returns the synthetic matrix
ChunkPostRaises ==
    /\ mpc = "chunk"
    /\ posts < Attempts
    /\ \E resp \in Responses :
          /\ statuses' = IF resp.kind = "exception" THEN statuses
                         ELSE Append(statuses, resp.code)
          /\ \/ /\ resp.kind = "exception"
                /\ chunk_outcome' = "raised: exception"
                /\ UNCHANGED <<matrix, bad_pairs_count>>
             \/ /\ resp.kind = "not_a_list"
                /\ chunk_outcome' = "raised: exception"
                /\ UNCHANGED <<matrix, bad_pairs_count>>
             \/ /\ resp.kind = "status"
                /\ resp.code = 200
                /\ resp.data # <<>>
                /\ ElementEffect(resp.data[1], chunk_at).kind = "raise"
                /\ chunk_outcome' = "raised: exception"
                /\ UNCHANGED <<matrix, bad_pairs_count>>
             \/ /\ resp.kind = "status"
                /\ resp.code # 200
                /\ ~IsTransient(resp.code)
                /\ chunk_outcome' = "raised: status"
                /\ UNCHANGED <<matrix, bad_pairs_count>>
             \/ /\ resp.kind = "status"
                /\ IsTransient(resp.code)
                /\ posts = Attempts - 1
                /\ chunk_outcome' = "raised: retries"
                /\ UNCHANGED <<matrix, bad_pairs_count>>
    /\ posts' = posts + 1
    /\ matrix_result' = Fallback
    /\ mpc' = "done"
    /\ UNCHANGED <<cvars, rvars, pvars, lvars, fvars, n_nodes_m,
                   has_google_key, calls, chunk_at, chunks_returned>>

\* lines 154-161: every chunk returned: the matrix, source "google"
MatrixReturnGoogle ==
    /\ mpc = "collected"
    /\ matrix_result' = [returned |-> TRUE, matrix |-> matrix,
                         source |-> "google"]
    /\ mpc' = "done"
    /\ UNCHANGED <<cvars, rvars, pvars, lvars, fvars, n_nodes_m,
                   has_google_key, matrix, bad_pairs_count, calls, chunk_at,
                   statuses, posts, chunk_outcome, chunks_returned>>

NextMatrix ==
    \/ MatrixNoNodes
    \/ MatrixNoKey
    \/ MatrixBegin
    \/ ChunkPostOk
    \/ MatrixNextChunk
    \/ ChunkPostRetry
    \/ ChunkPostRaises
    \/ MatrixReturnGoogle

SpecMatrix == InitMatrix /\ [][NextMatrix]_vars

\* the chunks of a request for n nodes: ceil(n / CHUNK) origin blocks times
\* as many destination blocks
TotalChunks == ((n_nodes_m + CHUNK - 1) \div CHUNK) * ((n_nodes_m + CHUNK - 1) \div CHUNK)

\* C24: compute_matrix_seconds always returns (it has no way to raise), and
\* what it returns is an N x N matrix; without a key, or when a chunk call
\* raised (status, exception or retries used up), it is the synthetic matrix
\* with source "synthetic"; the source is "google" only when there is a key
\* and every chunk call returned.
C24_SyntheticUnlessEveryChunkSucceeds ==
    /\ mpc \in {"start", "chunk", "next", "collected", "done"}
    /\ mpc = "done" =>
          /\ matrix_result.returned
          /\ Len(matrix_result.matrix) = n_nodes_m
          /\ \A i \in 1..n_nodes_m : Len(matrix_result.matrix[i]) = n_nodes_m
          /\ matrix_result.source \in {"synthetic", "google"}
          /\ (\/ ~has_google_key
              \/ chunk_outcome \in {"raised: status", "raised: exception",
                                    "raised: retries"}) =>
                 /\ matrix_result.source = "synthetic"
                 /\ matrix_result.matrix = _synthetic_matrix_seconds(n_nodes_m)
          /\ matrix_result.source = "google" =>
                 /\ has_google_key
                 /\ n_nodes_m > 0
                 /\ calls = TotalChunks
                 /\ chunks_returned = TotalChunks
                 /\ chunk_outcome = "returned"

\* of several chunks the first ones were answered, a later one failed, and
\* the synthetic matrix was returned
C24_Witness ==
    /\ mpc = "done"
    /\ has_google_key
    /\ n_nodes_m > CHUNK
    /\ chunks_returned >= 1
    /\ chunks_returned < TotalChunks
    /\ chunk_outcome = "raised: status"
    /\ matrix # PenaltyMatrix(n_nodes_m)
    /\ matrix_result.source = "synthetic"

\* C25 (as claimed): every cell of a returned matrix is a non-negative
\* integer and the diagonal is zero, whatever the remote service answered.
C25_NonNegativeZeroDiagonal ==
    matrix_result.returned =>
        \A i \in 1..Len(matrix_result.matrix) :
            /\ matrix_result.matrix[i][i] = 0
            /\ \A j \in 1..Len(matrix_result.matrix[i]) :
                   matrix_result.matrix[i][j] \in Nat

\* C26: for one chunk at most 4 posts are made; a post follows another only
\* after a 429/500/502/503/504 answer, so none follows a 200; any other
\* status makes the call raise at once, and so does a transient status at
\* the fourth post.
C26_AtMostFourRequests ==
    /\ [](/\ posts <= 4
          /\ Len(statuses) <= posts
          /\ \A k \in 1..(Len(statuses) - 1) :
                 statuses[k] \in {429, 500, 502, 503, 504})
    /\ [][(mpc = "chunk" /\ posts' = posts + 1) =>
            /\ posts < 4
            /\ statuses # <<>> =>
                   statuses[Len(statuses)] \in {429, 500, 502, 503, 504}
            /\ Len(statuses') > Len(statuses) =>
                 LET code == statuses'[Len(statuses')]
                 IN  /\ code = 200 => mpc' # "chunk"
                     /\ code \notin {200, 429, 500, 502, 503, 504} =>
                            /\ chunk_outcome' = "raised: status"
                            /\ mpc' = "done"
                     /\ (code \in {429, 500, 502, 503, 504} /\ posts' = 4) =>
                            /\ chunk_outcome' = "raised: retries"
                            /\ mpc' = "done"
                     /\ (code \in {429, 500, 502, 503, 504} /\ posts' < 4) =>
                            mpc' = "chunk"]_vars

\* four posts for one chunk, each answered with a transient status
C26_Witness ==
    /\ mpc = "done"
    /\ posts = 4
    /\ Len(statuses) = 4
    /\ \A k \in 1..4 : statuses[k] = 503
    /\ chunk_outcome = "raised: retries"

=============================================================================
